---- MODULE Spec2Model ----
(***************************************************************************)
(* gpustat_web/app.py as a state machine.                                  *)
(*                                                                         *)
(* A Python str is a sequence of tokens (one token per character group     *)
(* that the program treats as a unit: an ANSI escape sequence, a word, a   *)
(* line break).  A Python float is a record: a finite value counted in     *)
(* units of 1e-4 seconds, or one of inf, nan, or "huge" (a finite float    *)
(* above DBL_MAX/1000, such as 1e306, whose product with 1000 is inf).     *)
(***************************************************************************)
EXTENDS Integers, Sequences, FiniteSets, TLC

\* The longest sequence of host_set_message calls that is explored.
MaxCalls == 3

(***************************************************************************)
(* Inputs                                                                  *)
(***************************************************************************)

\* hostname arguments of host_set_message
Hosts == {"A", "B"}

\* msg arguments of host_set_message: "", "ok", and a red "warn"
Msgs == { <<>>, <<"ok">>, <<"ESC[31m", "warn", "ESC[0m">> }

Fin(u) == [k |-> "fin", u |-> u]
Inf == [k |-> "inf", u |-> 0]
NaN == [k |-> "nan", u |-> 0]
Huge == [k |-> "huge", u |-> 0]

\* values of --interval (type=float): -1.0, 0, 0.01, 0.1, 0.2, 5.0, nan, inf, 1e306
IntervalArgs == { Fin(-10000), Fin(0), Fin(100), Fin(1000), Fin(2000), Fin(50000),
                  NaN, Inf, Huge }

\* values of the positional ws argument
WsArgs == { <<"ws://gpu:48109/ws">> }

\* values of --ssl-certfile and --ssl-keyfile; <<>> is None
PathArgs == { <<>>, <<"server.pem">> }

DEFAULT_GPUSTAT_COMMAND == <<"gpustat --color --gpuname-width 25">>

\* the interval Context.__init__ sets: 5.0
DEFAULT_INTERVAL == Fin(50000)

\* the literal main compares args.interval with: 0.1
INTERVAL_THRESHOLD == Fin(1000)

(***************************************************************************)
(* float, as far as main and handler use it                                *)
(***************************************************************************)

\* x > y for a finite y
FloatGt(x, y) ==
    CASE x.k = "nan" -> FALSE
      [] x.k = "inf" -> TRUE
      [] x.k = "huge" -> TRUE
      [] OTHER -> x.u > y.u

\* x * 1000; the result of a finite x is counted in units of 1e-4
FloatMul1000(x) ==
    CASE x.k = "nan" -> NaN
      [] x.k = "inf" -> Inf
      [] x.k = "huge" -> Inf
      [] OTHER -> Fin(x.u * 1000)

\* int(x) of a product x: truncation towards zero; raises on inf and nan.  (A
\* product is never "huge": FloatMul1000 takes that to inf.)
PyInt(x) ==
    CASE x.k = "nan" -> [raised |-> "ValueError", v |-> 0]
      [] x.k = "inf" -> [raised |-> "OverflowError", v |-> 0]
      [] x.k = "fin" -> [raised |-> "",
                         v |-> IF x.u >= 0 THEN x.u \div 10000
                               ELSE -((-x.u) \div 10000)]

(***************************************************************************)
(* State                                                                   *)
(***************************************************************************)

VARIABLES
    pc,              \* where main is: "start", "parsed", "serving"
    args,            \* main's args, between parse_args and run_app
    colors_disabled, \* whether termcolor finds ANSI_COLORS_DISABLED set
    host_status,     \* context.host_status: <<[host, status], ...>> in dict order
    interval,        \* context.interval
    WS_URL,          \* the module global WS_URL
    log,             \* the lines cprint has written
    app,             \* what create_app returned and run_app serves
    rpc,             \* where render_gpustat_body is: "idle", "loop"
    ri,              \* the position of its for loop in context.host_status
    body,            \* its local body
    rendered,        \* what its last call returned
    response,        \* what handler returned to the request being answered
    calls,           \* history: the host_set_message calls made so far
    snap             \* history: context.host_status when render_gpustat_body was entered

vars == <<pc, args, colors_disabled, host_status, interval, WS_URL, log, app,
          rpc, ri, body, rendered, response, calls, snap>>

NoArgs == [ws |-> <<>>, port |-> 0, interval |-> Fin(0), ssl_certfile |-> <<>>,
           ssl_keyfile |-> <<>>, exec |-> <<>>]

NoApp == [routes |-> {}, ssl_context |-> FALSE, running |-> FALSE, port |-> 0]

NotRendered == [done |-> FALSE, markup |-> <<>>]

NoResponse == [outcome |-> "none"]

(***************************************************************************)
(* termcolor and ansi2html, as far as the program uses them                *)
(***************************************************************************)

RESET == "ESC[0m"

\* termcolor.COLORS, as SGR escape sequences
ColorCode(color) ==
    CASE color = "white" -> "ESC[37m"
      [] color = "red" -> "ESC[31m"
      [] color = "yellow" -> "ESC[33m"
      [] color = "green" -> "ESC[32m"

\* termcolor.colored(text, color)
colored(text, color) ==
    IF colors_disabled THEN text ELSE <<ColorCode(color)>> \o text \o <<RESET>>

SgrColors == {"ESC[37m", "ESC[31m", "ESC[33m", "ESC[32m"}

SpanOpen(code) ==
    CASE code = "ESC[37m" -> "<span class=\"ansi37\">"
      [] code = "ESC[31m" -> "<span class=\"ansi31\">"
      [] code = "ESC[33m" -> "<span class=\"ansi33\">"
      [] code = "ESC[32m" -> "<span class=\"ansi32\">"

HtmlEscape(t) ==
    CASE t = "&" -> "&amp;"
      [] t = "<" -> "&lt;"
      [] t = ">" -> "&gt;"
      [] OTHER -> t

RECURSIVE CloseSpans(_)
CloseSpans(n) == IF n = 0 THEN <<>> ELSE <<"</span>">> \o CloseSpans(n - 1)

\* ansi_conv.convert(s, full=False) from position i with `open` spans open: a
\* colour code opens a span, a reset closes the open ones, the end of the text
\* closes what is left open, markup characters are escaped.
RECURSIVE ConvertFrom(_, _, _)
ConvertFrom(s, i, open) ==
    IF i > Len(s) THEN CloseSpans(open)
    ELSE IF s[i] \in SgrColors THEN <<SpanOpen(s[i])>> \o ConvertFrom(s, i + 1, open + 1)
    ELSE IF s[i] = RESET THEN CloseSpans(open) \o ConvertFrom(s, i + 1, 0)
    ELSE <<HtmlEscape(s[i])>> \o ConvertFrom(s, i + 1, open)

convert(s) == ConvertFrom(s, 1, 0)

\* ansi_conv.produce_headers(): the style sheet of the scheme, one rule a line
produce_headers ==
    <<"<style type=\"text/css\">", "\n", ".ansi37 { color: #555555; }", "\n",
      "</style>", "\n">>

\* str.replace(old, new) for one-token old and new
replace(s, old, new) == [i \in 1..Len(s) |-> IF s[i] = old THEN new ELSE s[i]]

(***************************************************************************)
(* Context                                                                 *)
(***************************************************************************)

\* f"({hostname}) "
FmtLabel(hostname) == <<"(", hostname, ")", " ">>

\* colored(f"({hostname}) ", 'white') + msg + '\n'
StatusLine(hostname, msg) == colored(FmtLabel(hostname), "white") \o msg \o <<"\n">>

HasKey(d, k) == \E i \in 1..Len(d) : d[i].host = k

\* d[k] = v followed by d.move_to_end(k): an updated key goes last
SetItem_MoveToEnd(d, k, v) ==
    SelectSeq(d, LAMBDA e : e.host # k) \o <<[host |-> k, status |-> v]>>

\* d[k] += v for a present key: the new status is joined to the old one
SetItem_Merge(d, k, v) ==
    IF HasKey(d, k)
    THEN [i \in 1..Len(d) |->
            IF d[i].host = k THEN [host |-> k, status |-> d[i].status \o v] ELSE d[i]]
    ELSE Append(d, [host |-> k, status |-> v])

\* a registry of bounded size: a new key pushes the oldest one out
SetItem_Evict(d, k, v) ==
    IF HasKey(d, k)
    THEN [i \in 1..Len(d) |-> IF d[i].host = k THEN [host |-> k, status |-> v] ELSE d[i]]
    ELSE IF Len(d) >= 1 THEN Append(Tail(d), [host |-> k, status |-> v])
    ELSE Append(d, [host |-> k, status |-> v])

\* d = OrderedDict({k: v}): the registry is rebuilt around the one key
SetItem_Rebuild(d, k, v) == <<[host |-> k, status |-> v]>>

\* OrderedDict.__setitem__: d[k] = v replaces the value of a present key where
\* it stands and appends an absent key
SetItem(d, k, v) ==
    IF HasKey(d, k)
    THEN [i \in 1..Len(d) |-> IF d[i].host = k THEN [host |-> k, status |-> v] ELSE d[i]]
    ELSE Append(d, [host |-> k, status |-> v])

\* an async def render_gpustat_body that awaits inside its loop
RenderSuspends_Async == TRUE

\* Whether render_gpustat_body can be suspended between two iterations of its
\* loop: it is a plain def and holds no await.
RenderSuspends == FALSE

\* The event loop runs another callback only while no synchronous function is
\* in the middle of its body.
Schedulable == rpc = "idle" \/ RenderSuspends

Init ==
    /\ pc = "start"
    /\ args = NoArgs
    /\ colors_disabled \in BOOLEAN
    /\ host_status = <<>>
    /\ interval = DEFAULT_INTERVAL
    /\ WS_URL = <<>>
    /\ log = <<>>
    /\ app = NoApp
    /\ rpc = "idle"
    /\ ri = 0
    /\ body = <<>>
    /\ rendered = NotRendered
    /\ response = NoResponse
    /\ calls = <<>>
    /\ snap = <<>>

\* Context.host_set_message(hostname, msg)
host_set_message(hostname, msg) ==
    /\ pc = "serving"
    /\ Schedulable
    /\ Len(calls) < MaxCalls
    /\ host_status' = SetItem(host_status, hostname, StatusLine(hostname, msg))
    /\ calls' = Append(calls, [hostname |-> hostname, msg |-> msg])
    /\ UNCHANGED <<pc, args, colors_disabled, interval, WS_URL, log, app,
                   rpc, ri, body, rendered, response, snap>>

(***************************************************************************)
(* render_gpustat_body                                                     *)
(***************************************************************************)

\* the call, and body = ''
RenderBegin ==
    /\ pc = "serving"
    /\ rpc = "idle"
    /\ rpc' = "loop"
    /\ ri' = 1
    /\ body' = <<>>
    /\ rendered' = NotRendered
    /\ snap' = host_status
    /\ UNCHANGED <<pc, args, colors_disabled, host_status, interval, WS_URL, log,
                   app, response, calls>>

\* one iteration of its for loop
RenderStep ==
    /\ rpc = "loop"
    /\ ri <= Len(host_status)
    /\ body' = IF host_status[ri].status = <<>> THEN body
               ELSE body \o host_status[ri].status
    /\ ri' = ri + 1
    /\ UNCHANGED <<pc, args, colors_disabled, host_status, interval, WS_URL, log,
                   app, rpc, rendered, response, calls, snap>>

\* return ansi_conv.convert(body, full=False)
RenderReturn ==
    /\ rpc = "loop"
    /\ ri > Len(host_status)
    /\ rendered' = [done |-> TRUE, markup |-> convert(body)]
    /\ rpc' = "idle"
    /\ ri' = 0
    /\ body' = <<>>
    /\ UNCHANGED <<pc, args, colors_disabled, host_status, interval, WS_URL, log,
                   app, response, calls, snap>>

(***************************************************************************)
(* handler                                                                 *)
(***************************************************************************)

\* a str and an int value of the template's data
Str(s) == [t |-> "str", v |-> s]
Int_(n) == [t |-> "int", v |-> n]

\* the statuses of the first n entries of d, joined
RECURSIVE Joined(_, _)
Joined(d, n) == IF n = 0 THEN <<>> ELSE Joined(d, n - 1) \o d[n].status

\* a data dict that also carries the rendered registry
HandlerData_WithBody ==
    [ansi2html_headers |-> Str(replace(produce_headers, "\n", " ")),
     http_host |-> Str(WS_URL),
     interval |-> Int_(PyInt(FloatMul1000(interval)).v),
     gpustat_content |-> Str(convert(Joined(host_status, Len(host_status))))]

\* the dict handler hands to the template
HandlerData ==
    [ansi2html_headers |-> Str(replace(produce_headers, "\n", " ")),
     http_host |-> Str(WS_URL),
     interval |-> Int_(PyInt(FloatMul1000(interval)).v)]

\* handler(request): the page rendered from data, or the exception int() raises
handler ==
    /\ pc = "serving"
    /\ "/" \in app.routes
    /\ Schedulable
    /\ response = NoResponse
    /\ response' =
          IF PyInt(FloatMul1000(interval)).raised # ""
          THEN [outcome |-> "raised", error |-> PyInt(FloatMul1000(interval)).raised]
          ELSE [outcome |-> "ok", template |-> "index.html", data |-> HandlerData,
                content_language |-> "en"]
    /\ UNCHANGED <<pc, args, colors_disabled, host_status, interval, WS_URL, log,
                   app, rpc, ri, body, rendered, calls, snap>>

\* the request ends: the response, or the error, has gone to the client
Deliver ==
    /\ response # NoResponse
    /\ Schedulable
    /\ response' = NoResponse
    /\ UNCHANGED <<pc, args, colors_disabled, host_status, interval, WS_URL, log,
                   app, rpc, ri, body, rendered, calls, snap>>

(***************************************************************************)
(* create_app and main                                                     *)
(***************************************************************************)

LogLine(topic, text, color) == [topic |-> topic, text |-> text, color |-> color]

\* create_app(ssl_certfile, ssl_keyfile, exec_cmd): the route it adds, whether it
\* builds an ssl context (both files given; the files are taken to load), and
\* what it prints
create_app(ssl_certfile, ssl_keyfile, exec_cmd) ==
    [routes |-> {"/"},
     ssl_context |-> (ssl_certfile # <<>> /\ ssl_keyfile # <<>>),
     printed |-> IF ssl_certfile # <<>> /\ ssl_keyfile # <<>>
                 THEN <<LogLine("ssl", <<"Using Secure HTTPS (SSL/TLS) server ...">>,
                                "green")>>
                 ELSE <<>>]

\* main, from its start to parser.parse_args()
MainParse ==
    /\ pc = "start"
    /\ \E ws \in WsArgs, iv \in IntervalArgs, cert \in PathArgs, key \in PathArgs :
          args' = [ws |-> ws, port |-> 48109, interval |-> iv, ssl_certfile |-> cert,
                   ssl_keyfile |-> key, exec |-> DEFAULT_GPUSTAT_COMMAND]
    /\ pc' = "parsed"
    /\ UNCHANGED <<colors_disabled, host_status, interval, WS_URL, log, app,
                   rpc, ri, body, rendered, response, calls, snap>>

\* main, from WS_URL = args.ws to web.run_app; args is not read after that
MainRun ==
    /\ pc = "parsed"
    /\ WS_URL' = args.ws
    /\ interval' = IF FloatGt(args.interval, INTERVAL_THRESHOLD)
                   THEN args.interval ELSE interval
    /\ LET made == create_app(args.ssl_certfile, args.ssl_keyfile, args.exec)
       IN /\ log' = log \o <<LogLine("cmd", <<"Cmd   : ">> \o args.exec, "yellow")>>
                        \o made.printed
          /\ app' = [routes |-> made.routes, ssl_context |-> made.ssl_context,
                     running |-> TRUE, port |-> args.port]
    /\ args' = NoArgs
    /\ pc' = "serving"
    /\ UNCHANGED <<colors_disabled, host_status, rpc, ri, body, rendered,
                   response, calls, snap>>

Next ==
    \/ MainParse
    \/ MainRun
    \/ \E hostname \in Hosts, msg \in Msgs : host_set_message(hostname, msg)
    \/ RenderBegin
    \/ RenderStep
    \/ RenderReturn
    \/ handler
    \/ Deliver

Spec == Init /\ [][Next]_vars

(***************************************************************************)
(* What the properties below are stated with                               *)
(***************************************************************************)

Keys(d) == [i \in 1..Len(d) |-> d[i].host]

KeySet(d) == {d[i].host : i \in 1..Len(d)}

\* the stored reports, without their order
AsMap(d) == {<<d[i].host, d[i].status>> : i \in 1..Len(d)}

CallHosts(c) == {c[i].hostname : i \in 1..Len(c)}

\* the index of the first and of the last call for h
FirstIndex(c, h) ==
    CHOOSE i \in 1..Len(c) :
        c[i].hostname = h /\ \A j \in 1..(i - 1) : c[j].hostname # h

LastIndex(c, h) ==
    CHOOSE i \in 1..Len(c) :
        c[i].hostname = h /\ \A j \in (i + 1)..Len(c) : c[j].hostname # h

IsPrefix(s, t) == Len(s) <= Len(t) /\ \A i \in 1..Len(s) : s[i] = t[i]

\* a labelled block starts at position i of a text: "(" hostname ")" " "
LabelAt(m, i) ==
    /\ i + 3 <= Len(m)
    /\ m[i] = "("
    /\ m[i + 1] \in Hosts
    /\ m[i + 2] = ")"
    /\ m[i + 3] = " "

\* the hostnames of the labelled blocks of a text, in the order they stand in
RECURSIVE LabelsFrom(_, _)
LabelsFrom(m, i) ==
    IF i > Len(m) THEN <<>>
    ELSE IF LabelAt(m, i) THEN <<m[i + 1]>> \o LabelsFrom(m, i + 1)
    ELSE LabelsFrom(m, i + 1)

LabelsOf(m) == LabelsFrom(m, 1)

\* the entries of d whose report text (the msg they were set with) is not empty
NonEmptyReports(d) ==
    {i \in 1..Len(d) :
        d[i].status # colored(FmtLabel(d[i].host), "white") \o <<"\n">>}

\* a step in which handler answers a request
HandlerStep == response = NoResponse /\ response' # NoResponse

\* a step that is a call of host_set_message, and the hostname it was given
SetMessageStep == calls' # calls

UpdatedHost == calls'[Len(calls')].hostname

(***************************************************************************)
(* C1: the iteration order of context.host_status is the order in which    *)
(* the hostnames first appeared in the calls of host_set_message (a later  *)
(* update of a present hostname moves nothing), and the labelled blocks of *)
(* a rendered body stand in that order.                                    *)
(***************************************************************************)
C1_OrderIsFirstAppearance ==
    /\ KeySet(host_status) = CallHosts(calls)
    /\ \A p, q \in 1..Len(host_status) :
          p < q => FirstIndex(calls, host_status[p].host)
                     < FirstIndex(calls, host_status[q].host)
    /\ rendered.done =>
          /\ LabelsOf(rendered.markup) = Keys(snap)
          /\ IsPrefix(Keys(snap), Keys(host_status))

\* a hostname was updated again after another one had appeared, and the
\* registry of two was rendered
C1_Witness ==
    /\ \E i, j, k \in 1..Len(calls) :
          /\ i < j /\ j < k
          /\ calls[i].hostname = calls[k].hostname
          /\ calls[j].hostname # calls[i].hostname
    /\ rendered.done
    /\ Len(snap) = 2
    /\ snap = host_status

(***************************************************************************)
(* C2: render_gpustat_body skips the entries whose report text is empty:   *)
(* the body holds one labelled block per entry that was set with a         *)
(* non-empty text, and it is empty when every entry was set with the empty *)
(* text.                                                                   *)
(***************************************************************************)
C2_RenderSkipsEmptyReports ==
    rendered.done =>
        /\ Len(LabelsOf(rendered.markup)) = Cardinality(NonEmptyReports(snap))
        /\ NonEmptyReports(snap) = {} => rendered.markup = <<>>

(***************************************************************************)
(* C3: when --interval is at or below the 0.1 threshold, context.interval  *)
(* is a floor value after main's guard (read generously: the threshold, or *)
(* the default the guard leaves in place) and the substitution is printed. *)
(***************************************************************************)
C3_BelowFloorIsRaisedAndReported ==
    [][(/\ pc = "parsed"
        /\ pc' = "serving"
        /\ args.interval.k = "fin"
        /\ ~FloatGt(args.interval, INTERVAL_THRESHOLD))
       => /\ interval' \in {INTERVAL_THRESHOLD, DEFAULT_INTERVAL}
          /\ \E i \in 1..Len(log') : log'[i].topic = "interval"]_vars

C5_OneEntryWithLatestText ==
    /\ Len(host_status) = Cardinality(CallHosts(calls))
    /\ KeySet(host_status) = CallHosts(calls)
    /\ \A i \in 1..Len(host_status) :
          host_status[i].status =
              colored(FmtLabel(host_status[i].host), "white")
                  \o calls[LastIndex(calls, host_status[i].host)].msg
                  \o <<"\n">>

\* a hostname was set twice, with two different texts
C5_Witness ==
    \E i, j \in 1..Len(calls) :
        /\ i < j
        /\ calls[i].hostname = calls[j].hostname
        /\ calls[i].msg # calls[j].msg
        /\ calls[i].msg # <<>>

(***************************************************************************)
(* C6: no step removes an entry of context.host_status, and an entry that  *)
(* the step does not set keeps its status.                                 *)
(***************************************************************************)
C6_RegistryNeverShrinks ==
    [][\A i \in 1..Len(host_status) :
          \E j \in 1..Len(host_status') :
              /\ host_status'[j].host = host_status[i].host
              /\ \/ SetMessageStep /\ UpdatedHost = host_status[i].host
                 \/ host_status'[j].status = host_status[i].status]_vars

\* an entry was left alone by two later calls, a render and a view request
C6_Witness ==
    /\ Len(host_status) = 2
    /\ \E h \in KeySet(host_status) : LastIndex(calls, h) + 2 <= Len(calls)
    /\ rendered.done
    /\ response.outcome = "ok"

(***************************************************************************)
(* C8: render_gpustat_body runs from its call to its return with the       *)
(* registry it was called on: in its loop the registry is still that one   *)
(* and body is made of its first entries, and what it returns is the       *)
(* conversion of that one registry's statuses.                             *)
(***************************************************************************)
C8_RenderIsOfOneRegistryState ==
    /\ rpc = "loop" =>
          /\ host_status = snap
          /\ ri - 1 <= Len(snap)
          /\ body = Joined(snap, ri - 1)
    /\ rendered.done => rendered.markup = convert(Joined(snap, Len(snap)))

\* a registry of two was rendered, and was updated after the render returned
C8_Witness ==
    /\ rendered.done
    /\ Len(snap) = 2
    /\ host_status # snap

(***************************************************************************)
(* C9: host_set_message(h, msg) leaves every other entry where it is and   *)
(* as it is, and leaves context.interval alone; two calls for different    *)
(* hostnames store the same reports in either order.                       *)
(***************************************************************************)
C9_SetMessageFrame ==
    [][SetMessageStep =>
          /\ \A i \in 1..Len(host_status) :
                host_status[i].host # UpdatedHost =>
                    /\ i <= Len(host_status')
                    /\ host_status'[i] = host_status[i]
          /\ interval' = interval
          /\ \A h1, h2 \in Hosts : \A m1, m2 \in Msgs :
                h1 # h2 =>
                    AsMap(SetItem(SetItem(host_status, h1, StatusLine(h1, m1)),
                                  h2, StatusLine(h2, m2)))
                  = AsMap(SetItem(SetItem(host_status, h2, StatusLine(h2, m2)),
                                  h1, StatusLine(h1, m1)))]_vars

\* the first of two entries was set again while the second was there
C9_Witness ==
    /\ Len(calls) = 3
    /\ Len(host_status) = 2
    /\ calls[3].hostname = host_status[1].host

(***************************************************************************)
(* C10: once main has passed its guard context.interval is above 0.1, and  *)
(* every view request is answered with an interval of at least 100         *)
(* milliseconds; handler changes neither context.interval nor              *)
(* context.host_status.                                                    *)
(***************************************************************************)
C10_AdvertisedIntervalAtLeast100 ==
    [][/\ pc' = "serving" => FloatGt(interval', INTERVAL_THRESHOLD)
       /\ HandlerStep =>
             /\ response'.outcome = "ok"
             /\ response'.data.interval.t = "int"
             /\ response'.data.interval.v >= 100
             /\ UNCHANGED <<interval, host_status>>]_vars

====
